---- MODULE Spec2Model ----
(***************************************************************************)
(* A model of the research fetch orchestration of insight-atlas-scribe:    *)
(*   - ResearchPage (src/src/pages/ResearchPage.tsx, the first component   *)
(*     of the file): handleSubmit, executeResearch, continueResearch,      *)
(*     cancelResearch and the React state they read and write;             *)
(*   - WebScraperService.scrapeSearchTargets / cancelResearch              *)
(*     (src/src/services/webScraperService.ts);                            *)
(*   - FirecrawlService.crawlWebsite with its cache and rate window        *)
(*     (src/src/utils/FirecrawlService.ts), under the specification        *)
(*     SpecCrawl, and the FirecrawlService whose crawlWebsite takes a      *)
(*     timeout (src/unnamed/part_017), under SpecCrawlT;                   *)
(*   - the resolution of one target into URLs, under SpecResolve, and the  *)
(*     retry loop of SerpApiService.getTopSearchUrls                       *)
(*     (src/src/utils/SerpApiService.ts), under SpecRetry;                 *)
(*   - the earlier WebScraperService with a global timeout                 *)
(*     (src/unnamed/part_011), under SpecTimeout.                          *)
(*                                                                         *)
(* JavaScript runs every handler to completion: between two awaits of a    *)
(* pending promise nothing else runs.  The variable "active" holds the     *)
(* invocation that is on the call stack (0: the event loop is idle); user  *)
(* events, timers and network responses are taken only when it is 0.       *)
(*                                                                         *)
(* Strings are sequences of tokens ("example", ".com", " ", ...), so that  *)
(* startsWith, includes and concatenation are computed, not tabulated.     *)
(***************************************************************************)
EXTENDS Integers, Sequences, FiniteSets, TLC

VARIABLES
    \* ---- React state of ResearchPage (useState hooks)
    plannerResponse,    \* NoPlan or the plan's searchFocus (a list of targets)
    loading,
    isResearching,
    isReasoning,
    researchResults,    \* the session's accumulated results
    iterations,         \* the iteration history
    currentIteration,
    timeoutMessage,
    lastToast,          \* title of the last toast shown
    \* ---- static state of WebScraperService / SerpApiService
    isResearchCanceled,
    serpApiKey,         \* whether a SerpAPI key is stored
    \* ---- the JavaScript scheduler and the running executeResearch calls
    active,
    run,
    \* ---- history of the session, for the statements about rounds
    rounds,             \* executeResearch calls started since the last plan
    emptySeen,          \* a refinement has answered with no improvedTargets
    \* ---- static state of FirecrawlService and its callers (SpecCrawl)
    requestCache,
    recentRequests,
    now,
    call,
    netLog,
    plans,              \* plans generated so far
    \* ---- the resolution of one target into URLs (SpecResolve)
    search,
    \* ---- the global timeout of the earlier WebScraperService (SpecTimeout)
    researchTimeout,
    \* ---- one getTopSearchUrls call and its retry loop (SpecRetry)
    retry

vars == << plannerResponse, loading, isResearching, isReasoning, researchResults,
           iterations, currentIteration, timeoutMessage, lastToast,
           isResearchCanceled, serpApiKey, active, run, rounds, emptySeen,
           requestCache, recentRequests, now, call, netLog, plans, search,
           researchTimeout, retry >>

pageVars == << plannerResponse, loading, isResearching, isReasoning, researchResults,
               iterations, currentIteration, timeoutMessage, lastToast,
               isResearchCanceled, serpApiKey, active, run, rounds, emptySeen, plans >>

\* what the page's actions leave alone: FirecrawlService's state and the
\* resolution followed on its own
crawlVars == << requestCache, recentRequests, now, call, netLog, search,
               researchTimeout, retry >>

None == "none"

\* plannerResponse before a plan has been made (null)
NoPlan == << >>

-----------------------------------------------------------------------------
(* Bounds of the model *)

\* executeResearch calls that may be on the go at once
MaxProcs == 2
\* executeResearch calls started for one plan
MaxRounds == 3
MaxLiveRounds == 2     \* rounds started in the behaviours checked for progress
\* scrapeSearchTargets calls of the earlier WebScraperService
MaxScrapes == 2
\* length of the organic_results lists drawn
MaxOrganic == 4
\* plans generated (handleSubmit completions)
MaxPlans == 1
MaxQuestions == 2

Procs == 1..MaxProcs

-----------------------------------------------------------------------------
(* Program constants *)

MAX_RESEARCH_ITERATIONS == 2
MAX_URLS_PER_TARGET == 5
MAX_RESULTS_TOTAL == 15
BATCH_SIZE == 3
MAX_TARGETS == 5
MAX_RETRIES == 2
RETRY_DELAY == 2000

-----------------------------------------------------------------------------
(* Strings as token sequences *)

StartsWith(s, tok) == Len(s) > 0 /\ s[1] = tok

StartsWithHttp(s) == Len(s) > 0 /\ s[1] \in {"http://", "https://"}

Includes(s, tok) == \E i \in 1..Len(s) : s[i] = tok

Slice(s, from, to) ==
    \* Array.prototype.slice(from, to), 0-based, end exclusive
    LET hi == IF to < Len(s) THEN to ELSE Len(s)
    IN  IF from >= hi THEN << >> ELSE SubSeq(s, from + 1, hi)

IndexOf(s, x) ==
    \* Array.prototype.indexOf: 0-based, -1 when absent
    IF \E i \in 1..Len(s) : s[i] = x
    THEN (CHOOSE i \in 1..Len(s) : s[i] = x /\ \A j \in 1..(i-1) : s[j] # x) - 1
    ELSE -1

RECURSIVE Dedupe(_)
Dedupe(s) ==
    \* [...new Set(s)]: first occurrences, in order
    IF s = << >> THEN << >>
    ELSE Dedupe(SubSeq(s, 1, Len(s) - 1))
           \o (IF \E i \in 1..(Len(s) - 1) : s[i] = s[Len(s)]
               THEN << >> ELSE << s[Len(s)] >>)

-----------------------------------------------------------------------------
(* The targets, URLs and collaborator answers the model draws from *)

T_Domain == << "example", ".com" >>
T_Free   == << "industry", " ", "trends" >>
T_Free2  == << "market", " ", "news" >>

Url(host) == << "https://", host, ".com" >>

U_Bad   == Url("bad")       \* the content collaborator answers success: false
U_Void  == Url("void")      \* the content collaborator answers empty content
U_Flaky == Url("flaky")     \* the content collaborator answers either way

INDUSTRY_SOURCE == << "https://", "www.entrust", ".com", "/about/newsroom/events/" >>

\* (the fifth URL of L_Full is the page of the domain that is itself a target)
L_Full  == << Url("r1"), Url("r2"), Url("r3"), Url("r4"), Url("example") >>
L_Mixed == << U_Bad, U_Void, U_Flaky, Url("r1") >>
L_Two   == << Url("r1"), U_Bad >>

\* the plans createPlannerResponse may answer with (searchFocus)
Plans == { << T_Domain, T_Free >> }

\* the improvedTargets the refinement collaborator may propose
Improved == << T_Free2 >>

\* what the refinement collaborator may answer with: refine-research returns
\* newResults only together with improvedTargets
RefineAnswers ==
    { [improvedTargets |-> << >>, newResults |-> << >>],
      [improvedTargets |-> Improved, newResults |-> << >>],
      [improvedTargets |-> Improved,
       newResults |-> << [url |-> Url("n1"), content |-> "text", searchQuery |-> None] >>] }

\* what the content collaborator answers for a URL
CrawlOutcomes(url) ==
    IF url \in {U_Bad, INDUSTRY_SOURCE} THEN {"failed"}
    ELSE IF url = U_Void THEN {"empty"}
    ELSE IF url = U_Flaky THEN {"content", "failed"}
    ELSE {"content"}

-----------------------------------------------------------------------------
(* FirecrawlService.isValidUrl, SerpApiService helpers, prioritizeTargets *)

Schemes == {"http://", "https://"}
Tlds == {".com", ".org", ".net", ".edu", ".gov", ".se", ".no"}
GOOGLE_SEARCH == "www.google.com/search"

ParsesAsUrl(u) ==
    \* new URL(u) does not throw: a scheme, then a host without blanks or a
    \* non-numeric port
    /\ Len(u) >= 2
    /\ u[1] \in Schemes
    /\ u[2] \notin {" ", "site:"}
    /\ ~ Includes(u, "site:")
    /\ ~ (\E i \in 2..Len(u) : u[i] = " " /\ ~ Includes(SubSeq(u, 2, i), "/"))

IsValidUrl(u) ==
    /\ ParsesAsUrl(u)
    /\ ~ (u[1] = "https://" /\ u[2] = GOOGLE_SEARCH)
    /\ ~ Includes(u, " ")

LooksLikeDomain(s) ==
    /\ Len(s) > 0
    /\ \E i \in 1..Len(s) : s[i] \in Tlds

IsDirectUrl(s) == StartsWithHttp(s) \/ LooksLikeDomain(s)

\* a prefixing that does not look at the string
EnsureHttpsAlways(s) == << "https://" >> \o s

EnsureHttps(s) == IF StartsWithHttp(s) THEN s ELSE << "https://" >> \o s

SiteDomain(target) ==
    \* target.split('site:')[1].split(' ')[0]
    LET rest == SubSeq(target, 2, Len(target))
        stop == IF Includes(rest, " ")
                THEN (CHOOSE i \in 1..Len(rest) :
                         rest[i] = " " /\ \A j \in 1..(i-1) : rest[j] # " ") - 1
                ELSE Len(rest)
    IN  SubSeq(rest, 1, stop)

SearchFallback(query) ==
    \* what getTopSearchUrls returns when every attempt has failed
    IF StartsWith(query, "site:") THEN << << "https://" >> \o SiteDomain(query) >>
    ELSE IF LooksLikeDomain(query) THEN << EnsureHttps(query) >>
    ELSE << >>

\* what getTopSearchUrls returns for a query when an attempt is answered: the
\* URLs taken from the search collaborator's response, possibly none
SearchAnswers(query) ==
    IF query = T_Free THEN { L_Full, L_Two }
    ELSE IF query = T_Free2 THEN { L_Mixed, << >> }
    ELSE { << >> }

\* getTopSearchUrls' retry test after a failed attempt
RetryAllowed(retries) == retries < MAX_RETRIES

\* a retry counter that is never advanced
AfterRetryStuck(retries) == retries

\* retries++ after the backoff delay
AfterRetry(retries) == retries + 1

IsDirectTarget(t) ==
    StartsWithHttp(t) \/ Includes(t, ".com") \/ Includes(t, ".org") \/ Includes(t, ".net")

PrioritizeTargets(targets) ==
    LET direct(t)  == IsDirectTarget(t)
        site(t)    == ~ IsDirectTarget(t) /\ StartsWith(t, "site:")
        regular(t) == ~ IsDirectTarget(t) /\ ~ StartsWith(t, "site:")
    IN  SelectSeq(targets, direct) \o SelectSeq(targets, site) \o SelectSeq(targets, regular)

FilterUrls(urlsToScrape) ==
    \* [...new Set(urls)].filter(valid && not a Google search).slice(0, MAX)
    LET keep(u) == IsValidUrl(u) /\ ~ (u[1] = "https://" /\ u[2] = GOOGLE_SEARCH)
    IN  Slice(SelectSeq(Dedupe(urlsToScrape), keep), 0, MAX_URLS_PER_TARGET)

-----------------------------------------------------------------------------
(* The state of one executeResearch call *)

IdleRun ==
    [ pc |-> "idle",
      capIterations |-> << >>,   \* the closure's iterations
      capResults |-> << >>,      \* the closure's researchResults
      capIteration |-> 0,        \* the closure's currentIteration
      searchTargets |-> << >>,
      ti |-> 0,                  \* executeResearch's loop index i
      allResults |-> << >>,
      scTargets |-> << >>,       \* scrapeSearchTargets' parameter
      prio |-> << >>,            \* prioritizedTargets
      sti |-> 1,                 \* position in prioritizedTargets
      results |-> << >>,         \* scrapeSearchTargets' results
      query |-> << >>,           \* the query handed to getTopSearchUrls
      retries |-> 0,             \* getTopSearchUrls' retries
      urls |-> << >>,            \* urlsToScrape
      bi |-> 0,                  \* the batch loop's index i
      fstat |-> << >>,           \* the state of each fetch of the batch
      sizes |-> << >>,           \* the sizes of the batches run for urlsToScrape
      cancelAt |-> None,         \* where this call stood when cancelResearch ran
      kept |-> {} ]              \* the URLs it had fetched with content by then

Target(r) == r.prio[r.sti]

\* a batch cut one URL short
BatchShort(r) == Slice(r.urls, r.bi, r.bi + BATCH_SIZE - 1)

\* urlsToScrape.slice(i, i + BATCH_SIZE)
Batch(r) == Slice(r.urls, r.bi, r.bi + BATCH_SIZE)

Running(p) == run[p].pc # "idle"

\* the URLs a call of executeResearch has fetched with content so far: those of
\* its finished scrapeSearchTargets calls, of the finished batches of the current
\* one, and of the settled fetches of the batch in flight
FetchedUrls(r) ==
    { r.allResults[i].url : i \in 1..Len(r.allResults) }
      \cup { r.results[i].url : i \in 1..Len(r.results) }
      \cup IF r.pc = "awaitBatch"
           THEN { Batch(r)[k] : k \in { j \in 1..Len(r.fstat) : r.fstat[j] = "content" } }
           ELSE {}

-----------------------------------------------------------------------------
(* FirecrawlService: crawlWebsite, its cache and its rate window *)

MAX_CONCURRENT_REQUESTS == 3
RATE_LIMIT_WINDOW == 60000

\* concurrent callers of crawlWebsite
MaxCallers == 2
\* the clock advances in steps of TickMs up to MaxTime (milliseconds)
TickMs == 30000
MaxTime == 60000

Callers == 1..MaxCallers

\* the strings handed to crawlWebsite: two URLs and a bare domain
CrawlInputs == { Url("a"), Url("b"), << "a", ".com" >> }

\* FirecrawlService.formatUrl
FormatUrl(input) ==
    IF ParsesAsUrl(input) THEN input
    ELSE IF Len(input) = 2 /\ input[1] \notin Schemes \cup {"site:", " "} /\ input[2] \in Tlds
    THEN << "https://" >> \o input
    ELSE IF Includes(input, "/") /\ ~ StartsWithHttp(input)
    THEN << "https://" >> \o input
    ELSE IF Includes(input, "site:")
    THEN << "https://", GOOGLE_SEARCH, "?q=" >> \o input
    ELSE << "https://", GOOGLE_SEARCH, "?q=" >> \o input \o << " site:.com OR site:.org" >>

CrawlTargets == { FormatUrl(i) : i \in CrawlInputs }

\* a caller of crawlWebsite: where it stands, the URL of its last call and what
\* that call returned ("cached", "limited", "invalid", or the collaborator's outcome)
IdleCall == [ pc |-> "idle", url |-> << >>, ret |-> None ]

Returned(url, ret) == [ pc |-> "idle", url |-> url, ret |-> ret ]

InFlight(url) == [ pc |-> "inflight", url |-> url, ret |-> None ]

\* an optional string parameter that is not given (undefined or the empty string)
NoText == ""

\* the resolution of one target by scrapeSearchTargets and getTopSearchUrls (with
\* scrapeSearchTargets' researchContext and the dateStr it computes, and the query
\* handed to getTopSearchUrls):
\* the target, whether a SerpAPI key is stored, the search collaborator's response,
\* the queries sent to the collaborator, how getTopSearchUrls came to its return
\* value (found), urlsToScrape as the cases build it (cand) and after the filter
IdleSearch ==
    [ pc |-> "idle", target |-> << >>, key |-> FALSE,
      data |-> [kg |-> << >>, organic |-> << >>, inline |-> << >>, events |-> << >>],
      researchContext |-> NoText, dateStr |-> NoText, query |-> << >>,
      sent |-> << >>, via |-> None, found |-> << >>, cand |-> << >>, urls |-> << >> ]

\* researchTimeoutId of the earlier WebScraperService (armed or null), and what
\* stopped the scrapeSearchTargets call under way, if anything did
NoTimeout == [ armed |-> FALSE, by |-> None ]

\* one getTopSearchUrls call: where it is, the local retries, the attempts made
\* (fetch calls), whether the abort timer set before the loop is still armed, how
\* each failed attempt ended, the backoff delays awaited, and what it returned
IdleRetry ==
    [ pc |-> "idle", retries |-> 0, attempts |-> 0, timer |-> FALSE,
      errors |-> << >>, delays |-> << >>, returned |-> None ]

CrawlInit ==
    /\ search = IdleSearch
    /\ researchTimeout = NoTimeout
    /\ retry = IdleRetry
    /\ requestCache = [u \in CrawlTargets |-> None]
    /\ recentRequests = << >>
    /\ now = 0
    /\ call = [c \in Callers |-> IdleCall]
    /\ netLog = [u \in CrawlTargets |-> {}]

\* enforceRateLimit's clean-up: the requests still inside the window
Recent(reqs, t) ==
    LET inWindow(req) == t - req.timestamp < RATE_LIMIT_WINDOW
    IN  SelectSeq(reqs, inWindow)

\* an enforceRateLimit that admits one call more than the limit
RateLimitOkLax(reqs) == ~ (Len(reqs) > MAX_CONCURRENT_REQUESTS)

\* enforceRateLimit's answer, given the cleaned-up list
RateLimitOk(reqs) == ~ (Len(reqs) >= MAX_CONCURRENT_REQUESTS)

\* a crawlWebsite that stores only the responses with success: true
CacheableSuccessOnly(response) == response \in {"content", "empty"}

\* whether crawlWebsite stores a collaborator's response in the cache
Cacheable(response) == TRUE

\* a crawlWebsite that sends its request without recording it
PushNothing(reqs, t, url) == reqs

\* recentRequests.push({ timestamp: Date.now(), url })
PushRequest(reqs, t, url) == Append(reqs, [timestamp |-> t, url |-> url])

CrawlFrame ==
    UNCHANGED << plannerResponse, loading, isResearching, isReasoning, researchResults,
                 iterations, currentIteration, timeoutMessage, lastToast,
                 isResearchCanceled, serpApiKey, active, run, rounds, emptySeen,
                 plans, search, researchTimeout, retry >>

\* crawlWebsite from its call to its await of crawlUrl: the cache is looked up,
\* then the rate window is cleaned and tested, then the request is recorded and
\* sent; a cache hit or a full window returns at once
CrawlWebsite(c, input) ==
    /\ call[c].pc = "idle"
    /\ LET targetUrl == FormatUrl(input)
           cleaned == Recent(recentRequests, now)
       IN  IF requestCache[targetUrl] # None
           THEN /\ call' = [call EXCEPT ![c] = Returned(targetUrl, "cached")]
                /\ UNCHANGED << requestCache, recentRequests >>
           ELSE IF ~ RateLimitOk(cleaned)
           THEN /\ recentRequests' = cleaned
                /\ call' = [call EXCEPT ![c] = Returned(targetUrl, "limited")]
                /\ UNCHANGED requestCache
           ELSE /\ recentRequests' = PushRequest(cleaned, now, targetUrl)
                /\ call' = [call EXCEPT ![c] = InFlight(targetUrl)]
                /\ UNCHANGED requestCache
    /\ UNCHANGED << now, netLog >>
    /\ CrawlFrame

\* crawlUrl settles: a response (with content, with empty content, or
\* success: false), which is cached and returned, or an exception, which is not.
\* netLog keeps, for each URL, how its finished network calls ended.
CrawlReturn(c) ==
    /\ call[c].pc = "inflight"
    /\ \E response \in {"content", "empty", "failed", "threw"} :
         /\ requestCache' = IF response # "threw" /\ Cacheable(response)
                            THEN [requestCache EXCEPT ![call[c].url] = response]
                            ELSE requestCache
         /\ netLog' = [netLog EXCEPT ![call[c].url] =
                          @ \cup {IF response = "threw" THEN "threw" ELSE "answered"}]
         /\ call' = [call EXCEPT ![c] = Returned(call[c].url, response)]
    /\ UNCHANGED << recentRequests, now >>
    /\ CrawlFrame

\* time passes
Tick ==
    /\ now + TickMs <= MaxTime
    /\ now' = now + TickMs
    /\ UNCHANGED << requestCache, recentRequests, call, netLog >>
    /\ CrawlFrame

\* ---- the FirecrawlService of src/unnamed/part_017, whose crawlWebsite takes
\* (url, timeoutMs) as scrapeSearchTargets calls it: it records every request in
\* recentRequests and never calls its enforceRateLimit

MAX_CONCURRENT_REQUESTS_T == 2
RATE_LIMIT_WINDOW_T == 60000

\* requests kept in recentRequests, which this crawlWebsite never cleans
MaxRecent == 4

\* the inputs drawn for this crawlWebsite: the same, and a Google search page,
\* which its isValidUrl refuses
CrawlInputsT == CrawlInputs \cup { << "https://", GOOGLE_SEARCH, "?q=x" >> }

\* this FirecrawlService's formatUrl: "" for what is neither a URL nor a domain
FormatUrlT(input) ==
    IF Len(input) = 0 THEN << >>
    ELSE IF StartsWithHttp(input) THEN input
    ELSE IF LooksLikeDomain(input) THEN << "https://" >> \o input
    ELSE << >>

\* crawlWebsite from its call to its await of crawlUrl: an invalid URL is refused,
\* the cache is looked up, then the request is recorded and sent
CrawlWebsiteT(c, input) ==
    /\ call[c].pc = "idle"
    /\ Len(recentRequests) < MaxRecent
    /\ IF Len(input) = 0 \/ ~ IsValidUrl(input)
       THEN /\ call' = [call EXCEPT ![c] = Returned(<< >>, "invalid")]
            /\ UNCHANGED << requestCache, recentRequests >>
       ELSE LET url == IF FormatUrlT(input) # << >> THEN FormatUrlT(input) ELSE input IN
            IF requestCache[url] # None
            THEN /\ call' = [call EXCEPT ![c] = Returned(url, "cached")]
                 /\ UNCHANGED << requestCache, recentRequests >>
            ELSE /\ recentRequests' = PushRequest(recentRequests, now, url)
                 /\ call' = [call EXCEPT ![c] = InFlight(url)]
                 /\ UNCHANGED requestCache
    /\ UNCHANGED << now, netLog >>
    /\ CrawlFrame

\* crawlUrl settles: a response, which is cached whatever its success, or an
\* exception
CrawlReturnT(c) ==
    /\ call[c].pc = "inflight"
    /\ \E response \in {"content", "empty", "failed", "threw"} :
         /\ requestCache' = IF response # "threw"
                            THEN [requestCache EXCEPT ![call[c].url] = response]
                            ELSE requestCache
         /\ netLog' = [netLog EXCEPT ![call[c].url] =
                          @ \cup {IF response = "threw" THEN "threw" ELSE "answered"}]
         /\ call' = [call EXCEPT ![c] = Returned(call[c].url, response)]
    /\ UNCHANGED << recentRequests, now >>
    /\ CrawlFrame

InitCrawl ==
    /\ plannerResponse = NoPlan
    /\ loading = FALSE
    /\ isResearching = FALSE
    /\ isReasoning = FALSE
    /\ researchResults = << >>
    /\ iterations = << >>
    /\ currentIteration = 0
    /\ timeoutMessage = None
    /\ lastToast = None
    /\ isResearchCanceled = FALSE
    /\ serpApiKey = TRUE
    /\ active = 0
    /\ run = [p \in Procs |-> IdleRun]
    /\ rounds = 0
    /\ emptySeen = FALSE
    /\ plans = 0
    /\ CrawlInit

NextCrawl ==
    \/ \E c \in Callers, input \in CrawlInputs : CrawlWebsite(c, input)
    \/ \E c \in Callers : CrawlReturn(c)
    \/ Tick

SpecCrawl == InitCrawl /\ [][NextCrawl]_vars

NextCrawlT ==
    \/ \E c \in Callers, input \in CrawlInputsT : CrawlWebsiteT(c, input)
    \/ \E c \in Callers : CrawlReturnT(c)
    \/ Tick

SpecCrawlT == InitCrawl /\ [][NextCrawlT]_vars


-----------------------------------------------------------------------------
(* ResearchPage: the button handlers *)

Init ==
    /\ plannerResponse = NoPlan
    /\ loading = FALSE
    /\ isResearching = FALSE
    /\ isReasoning = FALSE
    /\ researchResults = << >>
    /\ iterations = << >>
    /\ currentIteration = 0
    /\ timeoutMessage = None
    /\ lastToast = None
    /\ isResearchCanceled = FALSE
    /\ serpApiKey \in BOOLEAN
    /\ active = 0
    /\ run = [p \in Procs |-> IdleRun]
    /\ rounds = 0
    /\ emptySeen = FALSE
    /\ plans = 0
    /\ CrawlInit

\* handleSubmit up to its await of createPlannerResponse
SubmitStartUpTo(limit) ==
    /\ active = 0
    /\ ~ loading
    /\ plans < limit
    /\ loading' = TRUE
    /\ UNCHANGED << plannerResponse, isResearching, isReasoning, researchResults,
                    iterations, currentIteration, timeoutMessage, lastToast,
                    isResearchCanceled, serpApiKey, active, run, rounds, emptySeen,
                    plans >>
    /\ UNCHANGED crawlVars

SubmitStart == SubmitStartUpTo(MaxPlans)

\* handleSubmit after createPlannerResponse has answered (ok), with one of the
\* plans given, or thrown
SubmitDoneFrom(answers) ==
    /\ active = 0
    /\ loading
    /\ \E ok \in BOOLEAN :
         IF ok
         THEN \E plan \in answers :
                /\ plannerResponse' = plan
                /\ researchResults' = << >>
                /\ iterations' = << >>
                /\ currentIteration' = 0
                /\ timeoutMessage' = None
                /\ lastToast' = "Research Plan Generated"
                /\ rounds' = 0
         ELSE /\ lastToast' = "Error"
              /\ UNCHANGED << plannerResponse, researchResults, iterations,
                              currentIteration, timeoutMessage, rounds >>
    /\ loading' = FALSE
    /\ plans' = plans + 1
    /\ UNCHANGED << isResearching, isReasoning, isResearchCanceled, serpApiKey,
                    active, run, emptySeen >>
    /\ UNCHANGED crawlVars

SubmitDone == SubmitDoneFrom(Plans)

\* a continueResearch that lets a round start at the limit
ContinueAllowedAtLimit == currentIteration <= MAX_RESEARCH_ITERATIONS

\* continueResearch's test
ContinueAllowed == currentIteration < MAX_RESEARCH_ITERATIONS

\* the Execute/Continue button: shown with a plan, disabled while isResearching;
\* onClick is executeResearch when currentIteration is 0, else continueResearch
ButtonStartsRound ==
    /\ plannerResponse # NoPlan
    /\ ~ isResearching
    /\ (currentIteration = 0 \/ ContinueAllowed)

FreeProc == CHOOSE p \in Procs : ~ Running(p) /\ \A q \in Procs : q < p => Running(q)

\* executeResearch from the click to the start of its loop over the targets
ExecuteResearch ==
    /\ active = 0
    /\ ButtonStartsRound
    /\ rounds < MaxRounds
    /\ \E q \in Procs : ~ Running(q)
    /\ LET p == FreeProc
           initialTargets == Slice(plannerResponse, 0, MAX_TARGETS)
           searchTargets ==
               IF Len(iterations) = 0
               THEN initialTargets
               ELSE Slice(iterations[Len(iterations)].targets, 0, MAX_TARGETS)
       IN  /\ isResearching' = TRUE
           /\ timeoutMessage' = None
           /\ IF Len(iterations) = 0
              THEN /\ iterations' = << [targets |-> initialTargets, results |-> << >>] >>
                   /\ currentIteration' = 1
              ELSE /\ iterations' = iterations
                   /\ currentIteration' = currentIteration + 1
           /\ run' = [run EXCEPT ![p] =
                        [IdleRun EXCEPT !.pc = "loop",
                                        !.capIterations = iterations,
                                        !.capResults = researchResults,
                                        !.capIteration = currentIteration,
                                        !.searchTargets = searchTargets]]
           /\ active' = p
    /\ rounds' = rounds + 1
    /\ UNCHANGED << plannerResponse, loading, isReasoning, researchResults, lastToast,
                    isResearchCanceled, serpApiKey, emptySeen, plans >>
    /\ UNCHANGED crawlVars

\* continueResearch when the iteration limit is reached: a toast, no round
ContinueRefused ==
    /\ active = 0
    /\ plannerResponse # NoPlan
    /\ ~ isResearching
    /\ currentIteration # 0
    /\ ~ ContinueAllowed
    /\ lastToast' = "Research Limit Reached"
    /\ UNCHANGED << plannerResponse, loading, isResearching, isReasoning,
                    researchResults, iterations, currentIteration, timeoutMessage,
                    isResearchCanceled, serpApiKey, active, run, rounds, emptySeen,
                    plans >>
    /\ UNCHANGED crawlVars

\* the Cancel button (shown while isResearching): the page's cancelResearch, which
\* calls WebScraperService.cancelResearch
CancelResearch ==
    /\ active = 0
    /\ isResearching
    /\ isResearchCanceled' = TRUE
    /\ timeoutMessage' = "Research canceled by user"
    /\ isResearching' = FALSE
    /\ isReasoning' = FALSE
    /\ lastToast' = "Research Canceled"
    /\ run' = [p \in Procs |->
                 IF Running(p)
                 THEN [run[p] EXCEPT !.cancelAt = run[p].pc, !.kept = FetchedUrls(run[p])]
                 ELSE run[p]]
    /\ UNCHANGED << plannerResponse, loading, researchResults, iterations,
                    currentIteration, serpApiKey, active, rounds, emptySeen, plans >>
    /\ UNCHANGED crawlVars

-----------------------------------------------------------------------------
(* executeResearch's loop and WebScraperService.scrapeSearchTargets *)

PageUnchanged ==
    UNCHANGED << plannerResponse, loading, isResearching, isReasoning, researchResults,
                 iterations, currentIteration, timeoutMessage, lastToast,
                 rounds, emptySeen, plans >>

\* the URLs of a target once resolved: filtered, deduplicated and capped; with none
\* left the target is skipped (continue), else the batch loop starts
Resolved(r, urlsToScrape) ==
    LET u == FilterUrls(urlsToScrape)
    IN  IF Len(u) = 0
        THEN [r EXCEPT !.urls = u, !.retries = 0, !.sti = r.sti + 1, !.pc = "targetLoop"]
        ELSE [r EXCEPT !.urls = u, !.retries = 0, !.bi = 0, !.sizes = << >>,
                       !.pc = "batchLoop"]

\* what the scraper makes of getTopSearchUrls' answer for a target
FoundToUrls(target, foundUrls) ==
    IF Len(foundUrls) > 0 THEN foundUrls
    ELSE IF StartsWith(target, "site:") THEN << << "https://" >> \o SiteDomain(target) >>
    ELSE << INDUSTRY_SOURCE >>

\* a page that reports a round without results as failed
ToastAfterFetchingFailed(allResults, toast) ==
    IF Len(allResults) = 0 THEN "Research Failed" ELSE toast

\* the toast shown when the loop over the targets has ended: one only when nothing
\* was found
ToastAfterFetching(allResults, toast) ==
    IF Len(allResults) = 0 THEN "No Initial Results Found" ELSE toast

\* executeResearch's loop over searchTargets: the next target is handed to
\* scrapeSearchTargets([target]), which clears the cancel flag and starts over; after
\* the last target the results go to the refinement collaborator
PageLoop(p) ==
    /\ active = p
    /\ run[p].pc = "loop"
    /\ LET r == run[p] IN
       IF r.ti < Len(r.searchTargets)
       THEN /\ isResearchCanceled' = FALSE
            /\ run' = [run EXCEPT ![p] =
                         [r EXCEPT !.pc = "targetLoop",
                                   !.scTargets = << r.searchTargets[r.ti + 1] >>,
                                   !.prio = PrioritizeTargets(<< r.searchTargets[r.ti + 1] >>),
                                   !.sti = 1,
                                   !.results = << >>,
                                   !.urls = << >>,
                                   !.bi = 0,
                                   !.fstat = << >>,
                                   !.sizes = << >>]]
            /\ active' = p
            /\ UNCHANGED << isReasoning, researchResults, lastToast >>
       ELSE /\ lastToast' = ToastAfterFetching(r.allResults, lastToast)
            /\ isReasoning' = TRUE
            /\ researchResults' = r.capResults \o r.allResults
            /\ run' = [run EXCEPT ![p] = [r EXCEPT !.pc = "refining"]]
            /\ active' = 0
            /\ UNCHANGED isResearchCanceled
    /\ UNCHANGED << plannerResponse, loading, isResearching, iterations,
                    currentIteration, timeoutMessage, serpApiKey, rounds, emptySeen,
                    plans >>
    /\ UNCHANGED crawlVars

\* the head of scrapeSearchTargets' loop over the targets, and the resolution of the
\* target into urlsToScrape up to the first await of a pending promise
TargetLoop(p) ==
    /\ active = p
    /\ run[p].pc = "targetLoop"
    /\ LET r == run[p] IN
       IF r.sti > Len(r.prio) \/ isResearchCanceled \/ Len(r.results) >= MAX_RESULTS_TOTAL
       THEN /\ run' = [run EXCEPT ![p] = [r EXCEPT !.pc = "scrapeReturn"]]
            /\ active' = p
       ELSE LET target == Target(r) IN
            IF StartsWithHttp(target) \/ IsValidUrl(<< "https://" >> \o target)
            THEN /\ run' = [run EXCEPT ![p] = Resolved(r, << EnsureHttps(target) >>)]
                 /\ active' = p
            ELSE IF ~ serpApiKey
            THEN /\ run' = [run EXCEPT ![p] = Resolved(r, FoundToUrls(target, << >>))]
                 /\ active' = p
            ELSE IF IsDirectUrl(target)
            THEN \* getTopSearchUrls answers without a network call
                 /\ run' = [run EXCEPT ![p] =
                              Resolved(r, FoundToUrls(target, << EnsureHttps(target) >>))]
                 /\ active' = p
            ELSE /\ run' = [run EXCEPT ![p] = [r EXCEPT !.pc = "searching",
                                                        !.query = target,
                                                        !.retries = 0]]
                 /\ active' = 0
    /\ PageUnchanged
    /\ UNCHANGED << isResearchCanceled, serpApiKey >>
    /\ UNCHANGED crawlVars

\* an attempt of getTopSearchUrls is answered: the URLs of the response are returned
SearchReturn(p) ==
    /\ active = 0
    /\ run[p].pc = "searching"
    /\ \E foundUrls \in SearchAnswers(run[p].query) :
         run' = [run EXCEPT ![p] = Resolved(run[p], FoundToUrls(Target(run[p]), foundUrls))]
    /\ active' = p
    /\ PageUnchanged
    /\ UNCHANGED << isResearchCanceled, serpApiKey >>
    /\ UNCHANGED crawlVars

\* an attempt of getTopSearchUrls fails: the 15 s abort, which is armed for the
\* first attempt only, or an error; an error is retried after a backoff while
\* retries remain, else the fallback for the query is returned
SearchFail(p) ==
    /\ active = 0
    /\ run[p].pc = "searching"
    /\ \E aborted \in BOOLEAN :
         /\ aborted => run[p].retries = 0
         /\ IF ~ aborted /\ RetryAllowed(run[p].retries)
            THEN /\ run' = [run EXCEPT ![p] = [run[p] EXCEPT !.pc = "retryDelay"]]
                 /\ active' = 0
            ELSE /\ run' = [run EXCEPT ![p] =
                              Resolved(run[p], FoundToUrls(Target(run[p]),
                                                           SearchFallback(run[p].query)))]
                 /\ active' = p
    /\ PageUnchanged
    /\ UNCHANGED << isResearchCanceled, serpApiKey >>
    /\ UNCHANGED crawlVars

\* a batch loop that also gives up once a fetch of the batch before has failed
BatchLoopEndsOnFailure(r, canceled) ==
    \/ r.bi >= Len(r.urls) \/ canceled \/ Len(r.results) >= MAX_RESULTS_TOTAL
    \/ (r.bi > 0 /\ \E k \in 1..Len(r.fstat) : r.fstat[k] = "failed")

\* the batch loop's tests: i < urlsToScrape.length, then the cancel flag and the cap
BatchLoopEnds(r, canceled) ==
    r.bi >= Len(r.urls) \/ canceled \/ Len(r.results) >= MAX_RESULTS_TOTAL

\* the head of the batch loop: the next batch's crawlWebsite calls are all issued
BatchLoop(p) ==
    /\ active = p
    /\ run[p].pc = "batchLoop"
    /\ LET r == run[p] IN
       IF BatchLoopEnds(r, isResearchCanceled)
       THEN /\ run' = [run EXCEPT ![p] = [r EXCEPT !.pc = "afterBatches"]]
            /\ active' = p
       ELSE /\ run' = [run EXCEPT ![p] =
                         [r EXCEPT !.pc = "awaitBatch",
                                   !.fstat = [k \in 1..Len(Batch(r)) |-> "inflight"],
                                   !.sizes = Append(r.sizes, Len(Batch(r)))]]
            /\ active' = 0
    /\ PageUnchanged
    /\ UNCHANGED << isResearchCanceled, serpApiKey >>
    /\ UNCHANGED crawlVars

\* a Promise.race in place of Promise.all: the batch is over with its first fetch
BatchSettledFirst(fstat) == \E k \in 1..Len(fstat) : fstat[k] # "inflight"

\* Promise.all: the batch is over when no fetch of it is in flight
BatchSettled(fstat) == \A k \in 1..Len(fstat) : fstat[k] # "inflight"

\* one crawlWebsite call of the batch settles
FetchSettle(p, k) ==
    /\ active = 0
    /\ run[p].pc = "awaitBatch"
    /\ k \in 1..Len(run[p].fstat)
    /\ run[p].fstat[k] = "inflight"
    /\ \E outcome \in CrawlOutcomes(Batch(run[p])[k]) :
         LET fs == [run[p].fstat EXCEPT ![k] = outcome] IN
         /\ run' = [run EXCEPT ![p] =
                      [run[p] EXCEPT !.fstat = fs,
                                     !.pc = IF BatchSettled(fs) THEN "collect"
                                            ELSE "awaitBatch"]]
         /\ active' = IF BatchSettled(fs) THEN p ELSE 0
    /\ PageUnchanged
    /\ UNCHANGED << isResearchCanceled, serpApiKey >>
    /\ UNCHANGED crawlVars

\* batch results that carry the fetched URL where the target belongs
RECURSIVE BatchResultsByUrl(_, _, _)
BatchResultsByUrl(batch, fstat, target) ==
    IF Len(batch) = 0 THEN << >>
    ELSE LET rest == BatchResultsByUrl(Tail(batch), Tail(fstat), target)
         IN  IF Head(fstat) = "content"
             THEN << [url |-> Head(batch), content |-> "text", searchQuery |-> Head(batch)] >>
                  \o rest
             ELSE rest

\* crawlResult.success && crawlResult.data
CrawlSucceeded(outcome) == outcome \in { "content", "empty" }

\* fullContent: fcData.content || ... || ''
FullContent(outcome) == IF outcome = "content" THEN "text" ELSE ""

\* a batch that accepts whatever a successful crawl brought
HasSubstanceAlways(fullContent) == TRUE

\* fullContent.length > 0
HasSubstance(fullContent) == fullContent # ""

\* the results of a settled batch, in the batch's order: a successful fetch whose
\* content is not empty gives a result, any other gives null
RECURSIVE BatchResults(_, _, _)
BatchResults(batch, fstat, target) ==
    IF Len(batch) = 0 THEN << >>
    ELSE LET rest == BatchResults(Tail(batch), Tail(fstat), target)
         IN  IF CrawlSucceeded(Head(fstat)) /\ HasSubstance(FullContent(Head(fstat)))
             THEN << [url |-> Head(batch), content |-> FullContent(Head(fstat)),
                      searchQuery |-> target] >>
                  \o rest
             ELSE rest

\* after Promise.all: the batch's results are pushed and the loop goes on, after a
\* delay when more batches remain
Collect(p) ==
    /\ active = p
    /\ run[p].pc = "collect"
    /\ LET r == run[p]
           new == BatchResults(Batch(r), r.fstat, Target(r))
           results == r.results \o new
           more == r.bi + BATCH_SIZE < Len(r.urls)
       IN  IF Len(new) = 0 /\ more
           THEN /\ run' = [run EXCEPT ![p] = [r EXCEPT !.pc = "batchDelay",
                                                       !.bi = r.bi + BATCH_SIZE]]
                /\ active' = 0
           ELSE IF Len(results) >= MAX_RESULTS_TOTAL
           THEN /\ run' = [run EXCEPT ![p] = [r EXCEPT !.pc = "afterBatches",
                                                       !.results = results]]
                /\ active' = p
           ELSE IF more
           THEN /\ run' = [run EXCEPT ![p] = [r EXCEPT !.pc = "batchDelay",
                                                       !.results = results,
                                                       !.bi = r.bi + BATCH_SIZE]]
                /\ active' = 0
           ELSE /\ run' = [run EXCEPT ![p] = [r EXCEPT !.pc = "batchLoop",
                                                       !.results = results,
                                                       !.bi = r.bi + BATCH_SIZE]]
                /\ active' = p
    /\ PageUnchanged
    /\ UNCHANGED << isResearchCanceled, serpApiKey >>
    /\ UNCHANGED crawlVars

\* after the batch loop: a delay before the next target unless this was the last
AfterBatches(p) ==
    /\ active = p
    /\ run[p].pc = "afterBatches"
    /\ LET r == run[p] IN
       IF IndexOf(r.scTargets, Target(r)) < Len(r.scTargets) - 1
       THEN /\ run' = [run EXCEPT ![p] = [r EXCEPT !.pc = "targetDelay"]]
            /\ active' = 0
       ELSE /\ run' = [run EXCEPT ![p] = [r EXCEPT !.pc = "targetLoop",
                                                   !.sti = r.sti + 1]]
            /\ active' = p
    /\ PageUnchanged
    /\ UNCHANGED << isResearchCanceled, serpApiKey >>
    /\ UNCHANGED crawlVars

\* a setTimeout fires: the scraper's BATCH_DELAY_MS or TARGET_DELAY_MS, or the
\* backoff of getTopSearchUrls, after which the next attempt is sent
DelayOver(p) ==
    /\ active = 0
    /\ run[p].pc \in {"batchDelay", "targetDelay", "retryDelay"}
    /\ run' = [run EXCEPT ![p] =
                 IF run[p].pc = "batchDelay"
                 THEN [run[p] EXCEPT !.pc = "batchLoop"]
                 ELSE IF run[p].pc = "targetDelay"
                 THEN [run[p] EXCEPT !.pc = "targetLoop", !.sti = run[p].sti + 1]
                 ELSE [run[p] EXCEPT !.pc = "searching",
                                     !.retries = AfterRetry(run[p].retries)]]
    /\ active' = IF run[p].pc = "retryDelay" THEN 0 ELSE p
    /\ PageUnchanged
    /\ UNCHANGED << isResearchCanceled, serpApiKey >>
    /\ UNCHANGED crawlVars

\* scrapeSearchTargets returns: executeResearch appends its results to allResults
ScrapeReturn(p) ==
    /\ active = p
    /\ run[p].pc = "scrapeReturn"
    /\ run' = [run EXCEPT ![p] =
                 [run[p] EXCEPT !.pc = "loop",
                                !.allResults = run[p].allResults \o run[p].results,
                                !.ti = run[p].ti + 1]]
    /\ active' = p
    /\ PageUnchanged
    /\ UNCHANGED << isResearchCanceled, serpApiKey >>
    /\ UNCHANGED crawlVars

\* the iteration history executeResearch writes after a refinement: the closure's
\* history with the round's results put on its last record, and a new record for
\* the improved targets
UpdatedIterations(r, improvedTargets, newResults) ==
    LET withResults ==
            IF Len(r.capIterations) > 0
            THEN [r.capIterations EXCEPT ![Len(r.capIterations)].results = r.allResults]
            ELSE r.capIterations
    IN  IF Len(improvedTargets) > 0
        THEN Append(withResults, [targets |-> Slice(improvedTargets, 0, MAX_TARGETS),
                                  results |-> newResults])
        ELSE withResults

\* the iteration of the refine-research request body: the currentIteration of the
\* render executeResearch was created in
RequestIteration(r) == r.capIteration

\* what the edge function hands on to the model: iteration || 1
ForwardedIteration(iteration) == IF iteration = 0 THEN 1 ELSE iteration

\* the refine-research call settles: an answer, or an error / the 45 s timeout;
\* either way the finally block clears isResearching and isReasoning
RefineReturn(p) ==
    /\ active = 0
    /\ run[p].pc = "refining"
    /\ \E ok \in BOOLEAN :
         IF ok
         THEN \E data \in RefineAnswers :
                /\ iterations' = UpdatedIterations(run[p], data.improvedTargets,
                                                   data.newResults)
                /\ researchResults' = researchResults \o data.newResults
                /\ lastToast' = IF Len(run[p].capResults \o run[p].allResults) = 0
                                   /\ Len(data.newResults) = 0
                                THEN "No Results Found" ELSE "Research Complete"
                /\ emptySeen' = (emptySeen \/ Len(data.improvedTargets) = 0)
         ELSE /\ lastToast' = "Research Failed"
              /\ UNCHANGED << iterations, researchResults, emptySeen >>
    /\ isResearching' = FALSE
    /\ isReasoning' = FALSE
    /\ run' = [run EXCEPT ![p] = [IdleRun EXCEPT !.cancelAt = run[p].cancelAt,
                                                 !.kept = run[p].kept]]
    /\ UNCHANGED << plannerResponse, loading, currentIteration, timeoutMessage,
                    isResearchCanceled, serpApiKey, active, rounds, plans >>
    /\ UNCHANGED crawlVars

Next ==
    \/ SubmitStart
    \/ SubmitDone
    \/ ExecuteResearch
    \/ ContinueRefused
    \/ CancelResearch
    \/ \E p \in Procs :
         \/ PageLoop(p)
         \/ TargetLoop(p)
         \/ SearchReturn(p)
         \/ SearchFail(p)
         \/ BatchLoop(p)
         \/ \E k \in 1..BATCH_SIZE : FetchSettle(p, k)
         \/ Collect(p)
         \/ AfterBatches(p)
         \/ DelayOver(p)
         \/ ScrapeReturn(p)
         \/ RefineReturn(p)

Spec == Init /\ [][Next]_vars

\* the steps of one call of executeResearch that no user action drives: its own
\* code between two awaits, and the settling of the call or timer it awaits
ProcStep(p) ==
    \/ PageLoop(p)
    \/ TargetLoop(p)
    \/ SearchReturn(p)
    \/ SearchFail(p)
    \/ BatchLoop(p)
    \/ \E k \in 1..BATCH_SIZE : FetchSettle(p, k)
    \/ Collect(p)
    \/ AfterBatches(p)
    \/ DelayOver(p)
    \/ ScrapeReturn(p)
    \/ RefineReturn(p)

\* code that can run does run, every timer fires and every external call settles;
\* nothing is assumed of the user
NextLive == Next /\ rounds' <= MaxLiveRounds

SpecLive == Init /\ [][NextLive]_vars /\ \A p \in Procs : WF_vars(ProcStep(p))

-----------------------------------------------------------------------------
(* ResearchPage: a second question is submitted, before or after the round of *)
(* the first one is over; one round per question, no cancellation              *)

\* the plan createPlannerResponse answers the second question with
PLAN_2 == << T_Free2 >>

\* the plans for the n-th submission
QuestionPlans(n) == IF n = 0 THEN Plans ELSE { PLAN_2 }

SubmitAgain == SubmitStartUpTo(MaxQuestions)

SubmitDoneAgain == SubmitDoneFrom(QuestionPlans(plans))

NextResubmit ==
    /\ \/ SubmitAgain
       \/ SubmitDoneAgain
       \/ ExecuteResearch
       \/ \E p \in Procs :
            \/ PageLoop(p)
            \/ TargetLoop(p)
            \/ SearchReturn(p)
            \/ SearchFail(p)
            \/ BatchLoop(p)
            \/ \E k \in 1..BATCH_SIZE : FetchSettle(p, k)
            \/ Collect(p)
            \/ AfterBatches(p)
            \/ DelayOver(p)
            \/ ScrapeReturn(p)
            \/ RefineReturn(p)
    /\ rounds' <= 1

SpecResubmit == Init /\ [][NextResubmit]_vars

-----------------------------------------------------------------------------
(* The resolution of one target: scrapeSearchTargets' cases and getTopSearchUrls *)

\* links of a search response: two ordinary pages, one on google.com, one on
\* youtube.com
K_A == Url("a")
K_C == Url("c")
K_Google == Url("google")
K_Tube == Url("youtube")
Links == { K_A, K_C, K_Google, K_Tube }

\* the organic_results lists drawn
OrganicLists == UNION { [1..n -> Links] : n \in 0..MaxOrganic }

\* the responses of the search collaborator drawn: knowledge_graph.website (none
\* or one), organic_results, inline_people_also_search_for and events_results
\* (an item without link is the empty string)
Responses ==
    [ kg : { << >>, << K_A >>, << K_Google >> },
      organic : OrganicLists,
      inline : { << >>, << << >>, K_A, K_C >> },
      events : { << >>, << K_C, K_C >> } ]

\* the targets drawn: a domain, free text, direct URLs (one of them a Google search
\* page), free text that names a domain, and a site: query
T_Https == << "https://", "example", ".com" >>
T_Http == << "http://", "example", ".com", "/a" >>
T_HttpSearch == << "https://", GOOGLE_SEARCH, "?q=x" >>
T_Spaced == << "acme", ".com", " ", "pricing" >>
T_Site == << "site:", "example", ".com", " ", "news" >>
T_Dated == << "events", " ", "2024" >>
ResolveTargets ==
    { T_Domain, T_Free, T_Https, T_Http, T_HttpSearch, T_Spaced, T_Site, T_Dated }

\* the researchContext and dateWindow arguments drawn (each may be left out)
Contexts == { NoText, "trends" }
DateWindows == { NoText, "2024" }

\* the date range scrapeSearchTargets computes when no dateWindow is given: the
\* year that ends today
DefaultDateStr == "lastYear to today"

\* dateStr = dateWindow || `${previousYear} to ${now}`
DateStr(dateWindow) == IF dateWindow # NoText THEN dateWindow ELSE DefaultDateStr

\* CASE 3's enrichedQuery: the context is appended unless the target includes it
EnrichedQuery(target, researchContext) ==
    IF researchContext # NoText /\ ~ Includes(target, researchContext)
    THEN target \o << " ", researchContext >>
    ELSE target

\* the query CASE 2 (a site: target) and CASE 3 hand to getTopSearchUrls
QueryFor(target, researchContext) ==
    IF StartsWith(target, "site:") THEN target
    ELSE EnrichedQuery(target, researchContext)

\* getTopSearchUrls' searchQ: query, then extraContext and dateRange when given
SearchQ(query, extraContext, dateRange) ==
    query \o (IF extraContext # NoText THEN << " ", extraContext >> ELSE << >>)
          \o (IF dateRange # NoText THEN << " ", dateRange >> ELSE << >>)

\* link.includes(host + ".com")
OnDomain(link, host) ==
    \E i \in 1..(Len(link) - 1) : link[i] = host /\ link[i + 1] = ".com"

\* the test of the first pass over organic_results
FirstPassOk(link) ==
    /\ Len(link) > 0
    /\ ~ OnDomain(link, "google")
    /\ ~ OnDomain(link, "gstatic")
    /\ ~ OnDomain(link, "youtube")

\* the test of the second pass
SecondPassOk(link) == Len(link) > 0 /\ ~ OnDomain(link, "google")

\* item.link is set
HasLink(link) == Len(link) > 0

\* a loop that pushes every link, seen before or not
RECURSIVE PushAll(_, _)
PushAll(urls, links) ==
    IF links = << >> THEN urls
    ELSE PushAll(Append(urls, Head(links)), Tail(links))

\* for (const x of links) if (!urls.includes(x.link)) urls.push(x.link)
RECURSIVE PushNew(_, _)
PushNew(urls, links) ==
    IF links = << >> THEN urls
    ELSE PushNew(IF Includes(urls, Head(links)) THEN urls ELSE Append(urls, Head(links)),
                 Tail(links))

\* the URLs getTopSearchUrls takes from a response
ExtractUrls(data, limit) ==
    LET first == PushNew(data.kg, SelectSeq(data.organic, FirstPassOk))
        second == IF Len(first) < limit
                  THEN PushNew(first, SelectSeq(data.organic, SecondPassOk))
                  ELSE first
        related == PushNew(second, SelectSeq(data.inline, HasLink))
        urls == IF Len(related) = 0
                THEN PushNew(related, SelectSeq(data.events, HasLink))
                ELSE related
    IN  Slice(urls, 0, limit)

ResolveFrame ==
    UNCHANGED << pageVars, requestCache, recentRequests, now, call, netLog,
                 researchTimeout, retry >>

\* CASE 1 of scrapeSearchTargets: the target is a URL or a domain; the filter follows
ResolveDirect ==
    /\ search.pc = "start"
    /\ StartsWithHttp(search.target) \/ IsValidUrl(<< "https://" >> \o search.target)
    /\ search' = [search EXCEPT !.pc = "resolved", !.via = "case1",
                                !.cand = << EnsureHttps(search.target) >>,
                                !.urls = FilterUrls(<< EnsureHttps(search.target) >>)]
    /\ ResolveFrame

\* CASES 2 and 3 without a SerpAPI key: the site's domain, else an industry source
ResolveNoKey ==
    /\ search.pc = "start"
    /\ ~ (StartsWithHttp(search.target) \/ IsValidUrl(<< "https://" >> \o search.target))
    /\ ~ search.key
    /\ search' = [search EXCEPT !.pc = "resolved", !.via = "nokey",
                                !.cand = FoundToUrls(search.target, << >>),
                                !.urls = FilterUrls(FoundToUrls(search.target, << >>))]
    /\ ResolveFrame

\* CASES 2 and 3 with a key: getTopSearchUrls is called with the target
ResolveCall ==
    /\ search.pc = "start"
    /\ ~ (StartsWithHttp(search.target) \/ IsValidUrl(<< "https://" >> \o search.target))
    /\ search.key
    /\ search' = [search EXCEPT !.pc = "inResolver",
                                !.query = QueryFor(search.target, search.researchContext)]
    /\ ResolveFrame

\* getTopSearchUrls: a direct URL or a domain is returned as it is, else the
\* query is sent to the search collaborator
GetTopSearchUrls ==
    /\ search.pc = "inResolver"
    /\ IF IsDirectUrl(search.query)
       THEN search' = [search EXCEPT !.pc = "found", !.via = "shortcut",
                                     !.found = << EnsureHttps(search.query) >>]
       ELSE search' = [search EXCEPT !.pc = "awaiting",
                                     !.sent = Append(search.sent,
                                                     SearchQ(search.query,
                                                             search.researchContext,
                                                             search.dateStr))]
    /\ ResolveFrame

\* the search collaborator answers: the URLs of the response are returned
GetAnswered ==
    /\ search.pc = "awaiting"
    /\ search' = [search EXCEPT !.pc = "found", !.via = "answered",
                                !.found = ExtractUrls(search.data, MAX_URLS_PER_TARGET)]
    /\ ResolveFrame

\* every attempt has failed, or the first was aborted: the fallback is returned
GetFailed ==
    /\ search.pc = "awaiting"
    /\ search' = [search EXCEPT !.pc = "found", !.via = "fallback",
                                !.found = SearchFallback(search.query)]
    /\ ResolveFrame

\* back in scrapeSearchTargets: the found URLs or the stand-in, then the filter
ResolveFound ==
    /\ search.pc = "found"
    /\ search' = [search EXCEPT !.pc = "resolved",
                                !.cand = FoundToUrls(search.target, search.found),
                                !.urls = FilterUrls(FoundToUrls(search.target, search.found))]
    /\ ResolveFrame

InitResolve ==
    /\ plannerResponse = NoPlan
    /\ loading = FALSE
    /\ isResearching = FALSE
    /\ isReasoning = FALSE
    /\ researchResults = << >>
    /\ iterations = << >>
    /\ currentIteration = 0
    /\ timeoutMessage = None
    /\ lastToast = None
    /\ isResearchCanceled = FALSE
    /\ serpApiKey = TRUE
    /\ active = 0
    /\ run = [p \in Procs |-> IdleRun]
    /\ rounds = 0
    /\ emptySeen = FALSE
    /\ plans = 0
    /\ requestCache = [u \in CrawlTargets |-> None]
    /\ recentRequests = << >>
    /\ now = 0
    /\ call = [c \in Callers |-> IdleCall]
    /\ netLog = [u \in CrawlTargets |-> {}]
    /\ researchTimeout = NoTimeout
    /\ retry = IdleRetry
    /\ \E target \in ResolveTargets, key \in BOOLEAN, data \in Responses,
          context \in Contexts, dateWindow \in DateWindows :
         search = [IdleSearch EXCEPT !.pc = "start", !.target = target,
                                     !.key = key, !.data = data,
                                     !.researchContext = context,
                                     !.dateStr = DateStr(dateWindow)]

NextResolve ==
    \/ ResolveDirect
    \/ ResolveNoKey
    \/ ResolveCall
    \/ GetTopSearchUrls
    \/ GetAnswered
    \/ GetFailed
    \/ ResolveFound

SpecResolve == InitResolve /\ [][NextResolve]_vars

-----------------------------------------------------------------------------
(* The earlier WebScraperService (src/unnamed/part_011): one scrapeSearchTargets *)
(* call over all targets of a round, under a global timeout                     *)

\* the target lists handed to scrapeSearchTargets
TimeoutInputs == { << T_Domain, T_Free >>, << T_Free2 >> }

TimeoutFrame ==
    UNCHANGED << plannerResponse, loading, isResearching, isReasoning, researchResults,
                 iterations, currentIteration, timeoutMessage, lastToast, serpApiKey,
                 emptySeen, plans, requestCache, recentRequests, now, call, netLog,
                 search, retry >>

\* scrapeSearchTargets is called: the flag is reset and the global timeout is armed
ScrapeStart011 ==
    /\ active = 0
    /\ run[1].pc = "idle"
    /\ rounds < MaxScrapes
    /\ \E targets \in TimeoutInputs :
         run' = [run EXCEPT ![1] = [IdleRun EXCEPT !.pc = "targetLoop",
                                                   !.searchTargets = targets,
                                                   !.scTargets = targets,
                                                   !.prio = PrioritizeTargets(targets)]]
    /\ isResearchCanceled' = FALSE
    /\ researchTimeout' = [armed |-> TRUE, by |-> None]
    /\ rounds' = rounds + 1
    /\ active' = 1
    /\ TimeoutFrame

\* WebScraperService.cancelResearch(): the flag is set and the timeout is cleared
CancelEffect ==
    /\ isResearchCanceled' = TRUE
    /\ ~ researchTimeout'.armed

\* a timeout callback that only logs
TimeoutLogsOnly ==
    /\ isResearchCanceled' = isResearchCanceled
    /\ ~ researchTimeout'.armed

\* the callback of the global timeout: this.cancelResearch()
TimeoutCallback == CancelEffect

\* cancelResearch() is called from the page
CancelResearch011 ==
    /\ active = 0
    /\ run[1].pc # "idle"
    /\ researchTimeout' = [armed |-> FALSE, by |-> "cancel"]
    /\ CancelEffect
    /\ UNCHANGED << run, rounds, active >>
    /\ TimeoutFrame

\* the global timeout fires: its callback calls this.cancelResearch()
TimeoutFires011 ==
    /\ active = 0
    /\ researchTimeout.armed
    /\ researchTimeout' = [armed |-> FALSE, by |-> "timeout"]
    /\ TimeoutCallback
    /\ UNCHANGED << run, rounds, active >>
    /\ TimeoutFrame

\* after the loop over the targets: with no result at all one industry source is
\* fetched; else the call returns, its finally block clearing the timeout
ScrapeTail011 ==
    /\ active = 1
    /\ run[1].pc = "scrapeReturn"
    /\ IF Len(run[1].results) = 0
       THEN /\ run' = [run EXCEPT ![1] = [run[1] EXCEPT !.pc = "industry"]]
            /\ UNCHANGED researchTimeout
       ELSE /\ run' = [run EXCEPT ![1] = [run[1] EXCEPT !.pc = "idle"]]
            /\ researchTimeout' = [researchTimeout EXCEPT !.armed = FALSE]
    /\ active' = 0
    /\ UNCHANGED << isResearchCanceled, rounds >>
    /\ TimeoutFrame

\* the fetch of the industry source settles and the call returns
IndustrySettle011 ==
    /\ active = 0
    /\ run[1].pc = "industry"
    /\ \E outcome \in {"content", "failed"} :
         run' = [run EXCEPT ![1] =
                   [run[1] EXCEPT !.pc = "idle",
                                  !.results = IF outcome = "content"
                                              THEN << [url |-> INDUSTRY_SOURCE,
                                                       content |-> "text",
                                                       searchQuery |-> None] >>
                                              ELSE << >>]]
    /\ researchTimeout' = [researchTimeout EXCEPT !.armed = FALSE]
    /\ UNCHANGED << isResearchCanceled, rounds, active >>
    /\ TimeoutFrame

InitTimeout == InitCrawl

NextTimeout ==
    \/ ScrapeStart011
    \/ CancelResearch011
    \/ TimeoutFires011
    \/ TargetLoop(1)
    \/ SearchReturn(1)
    \/ SearchFail(1)
    \/ BatchLoop(1)
    \/ \E k \in 1..BATCH_SIZE : FetchSettle(1, k)
    \/ Collect(1)
    \/ AfterBatches(1)
    \/ DelayOver(1)
    \/ ScrapeTail011
    \/ IndustrySettle011

SpecTimeout == InitTimeout /\ [][NextTimeout]_vars

-----------------------------------------------------------------------------
(* SerpApiService.getTopSearchUrls: the retry loop of one search call *)

\* how an attempt can fail other than by the abort timer: fetch rejects, the
\* response has status 429, the response has another status that is not ok
\* (the request was rejected), the body is not valid JSON
ErrorKinds == { "network", "rateLimit", "rejected", "invalid" }

\* a backoff that does not grow
BackoffFixed(retries) == RETRY_DELAY

\* the delay awaited before the next attempt
BackoffDelay(retries) == RETRY_DELAY * 2 ^ retries

\* a catch block that treats an AbortError like any other error
RetriedAlsoAborted(error, retries) == RetryAllowed(retries)

\* the catch block's decision: an AbortError breaks out of the loop, any other
\* error is retried while retries < MAX_RETRIES
RetriedAfter(error, retries) == error # "timeout" /\ RetryAllowed(retries)

\* the catch block: the timer is cleared, then the loop is left or the backoff
\* delay is awaited
Caught(r, error) ==
    IF RetriedAfter(error, r.retries)
    THEN [r EXCEPT !.pc = "backoff", !.timer = FALSE,
                   !.errors = Append(r.errors, error),
                   !.delays = Append(r.delays, BackoffDelay(r.retries))]
    ELSE [r EXCEPT !.pc = "returned", !.timer = FALSE,
                   !.errors = Append(r.errors, error),
                   !.returned = "fallback"]

RetryFrame ==
    UNCHANGED << plannerResponse, loading, isResearching, isReasoning, researchResults,
                 iterations, currentIteration, timeoutMessage, lastToast, serpApiKey,
                 active, run, rounds, emptySeen, plans, requestCache, recentRequests,
                 now, call, netLog, search, researchTimeout >>

\* getTopSearchUrls is called with a query that is searched: the abort timer is
\* set, retries = 0 and the first fetch is made
RetryStart ==
    /\ retry.pc = "idle"
    /\ retry' = [IdleRetry EXCEPT !.pc = "fetching", !.attempts = 1, !.timer = TRUE]
    /\ UNCHANGED isResearchCanceled
    /\ RetryFrame

\* the collaborator answers with a body that parses: the timer is cleared and the
\* extracted URLs are returned
RetryAnswered ==
    /\ retry.pc = "fetching"
    /\ retry' = [retry EXCEPT !.pc = "returned", !.timer = FALSE, !.returned = "urls"]
    /\ UNCHANGED isResearchCanceled
    /\ RetryFrame

\* the attempt fails with an error that is not an abort
RetryFails ==
    /\ retry.pc = "fetching"
    /\ \E error \in ErrorKinds : retry' = Caught(retry, error)
    /\ UNCHANGED isResearchCanceled
    /\ RetryFrame

\* the abort timer fires while a fetch is pending: fetch rejects with an AbortError
RetryTimesOut ==
    /\ retry.pc = "fetching"
    /\ retry.timer
    /\ retry' = Caught(retry, "timeout")
    /\ UNCHANGED isResearchCanceled
    /\ RetryFrame

\* the backoff delay is over: retries++ and the next fetch is made
BackoffOver ==
    /\ retry.pc = "backoff"
    /\ retry' = [retry EXCEPT !.pc = "fetching",
                              !.retries = AfterRetry(retry.retries),
                              !.attempts = retry.attempts + 1]
    /\ UNCHANGED isResearchCanceled
    /\ RetryFrame

\* WebScraperService.cancelResearch while the search call is under way
CancelDuringRetry ==
    /\ retry.pc \in { "fetching", "backoff" }
    /\ ~ isResearchCanceled
    /\ isResearchCanceled' = TRUE
    /\ UNCHANGED retry
    /\ RetryFrame

InitRetry == InitCrawl

NextRetry ==
    \/ RetryStart
    \/ RetryAnswered
    \/ RetryFails
    \/ RetryTimesOut
    \/ BackoffOver
    \/ CancelDuringRetry

SpecRetry == InitRetry /\ [][NextRetry]_vars

-----------------------------------------------------------------------------
(* The batch loop of scrapeSearchTargets over FirecrawlService.crawlWebsite     *)
(* (src/src/utils/FirecrawlService.ts) with its cache and its rate window       *)

BATCH_DELAY_MS == 1000

\* targets whose URL lists are fetched one after the other
MaxRateTargets == 2

\* crawlWebsite up to its await of crawlUrl, as a function of the static state:
\* what it leaves in recentRequests and how the call stands ("cached", "limited"
\* or "inflight")
IssueOne(reqs, cache, t, url) ==
    LET targetUrl == FormatUrl(url)
        cleaned == Recent(reqs, t)
    IN  IF cache[targetUrl] # None THEN [reqs |-> reqs, stat |-> "cached"]
        ELSE IF ~ RateLimitOk(cleaned) THEN [reqs |-> cleaned, stat |-> "limited"]
        ELSE [reqs |-> PushRequest(cleaned, t, targetUrl), stat |-> "inflight"]

\* batch.map(async url => crawlWebsite(url)): the calls start one after the other,
\* each running up to its await
RECURSIVE IssueBatch(_, _, _, _)
IssueBatch(reqs, cache, t, batch) ==
    IF batch = << >> THEN [reqs |-> reqs, stats |-> << >>]
    ELSE LET one == IssueOne(reqs, cache, t, Head(batch))
             rest == IssueBatch(one.reqs, cache, t, Tail(batch))
         IN  [reqs |-> rest.reqs, stats |-> << one.stat >> \o rest.stats]

RateFrame ==
    UNCHANGED << plannerResponse, loading, isResearching, isReasoning, researchResults,
                 iterations, currentIteration, timeoutMessage, lastToast,
                 isResearchCanceled, serpApiKey, active, emptySeen, plans, call, netLog,
                 search, researchTimeout, retry >>

\* a target has been resolved to its (at most MAX_URLS_PER_TARGET) URLs
RateStart ==
    /\ run[1].pc = "idle"
    /\ rounds < MaxRateTargets
    /\ \E n \in 1..MAX_URLS_PER_TARGET :
         run' = [run EXCEPT ![1] = [IdleRun EXCEPT !.pc = "batchLoop",
                                                   !.urls = Slice(L_Full, 0, n)]]
    /\ rounds' = rounds + 1
    /\ UNCHANGED << requestCache, recentRequests, now >>
    /\ RateFrame

\* the head of the batch loop: the crawlWebsite calls of the next batch are made
RateBatch ==
    /\ run[1].pc = "batchLoop"
    /\ LET r == run[1]
           out == IssueBatch(recentRequests, requestCache, now, Batch(r))
       IN  IF BatchLoopEnds(r, isResearchCanceled)
           THEN /\ run' = [run EXCEPT ![1] = [r EXCEPT !.pc = "idle"]]
                /\ UNCHANGED recentRequests
           ELSE /\ run' = [run EXCEPT ![1] = [r EXCEPT !.pc = "awaitBatch",
                                                       !.fstat = out.stats]]
                /\ recentRequests' = out.reqs
    /\ UNCHANGED << requestCache, now, rounds >>
    /\ RateFrame

\* crawlUrl answers for one call of the batch, after some time: the response is
\* cached
RateSettle(k) ==
    /\ run[1].pc = "awaitBatch"
    /\ k \in 1..Len(run[1].fstat)
    /\ run[1].fstat[k] = "inflight"
    /\ \E response \in { "content", "failed" }, d \in { 0, TickMs } :
         /\ now + d <= MaxTime
         /\ now' = now + d
         /\ requestCache' = IF Cacheable(response)
                            THEN [requestCache EXCEPT ![FormatUrl(Batch(run[1])[k])] = response]
                            ELSE requestCache
         /\ run' = [run EXCEPT ![1] = [run[1] EXCEPT !.fstat[k] = response]]
    /\ UNCHANGED << recentRequests, rounds >>
    /\ RateFrame

\* Promise.all is over: the delay between batches, then the next batch
RateCollect ==
    /\ run[1].pc = "awaitBatch"
    /\ BatchSettled(run[1].fstat)
    /\ LET r == run[1]
           more == r.bi + BATCH_SIZE < Len(r.urls)
       IN  /\ run' = [run EXCEPT ![1] = [r EXCEPT !.pc = "batchLoop",
                                                   !.bi = r.bi + BATCH_SIZE]]
           /\ now' = IF more THEN now + BATCH_DELAY_MS ELSE now
    /\ UNCHANGED << requestCache, recentRequests, rounds >>
    /\ RateFrame

InitRate ==
    /\ plannerResponse = NoPlan
    /\ loading = FALSE
    /\ isResearching = FALSE
    /\ isReasoning = FALSE
    /\ researchResults = << >>
    /\ iterations = << >>
    /\ currentIteration = 0
    /\ timeoutMessage = None
    /\ lastToast = None
    /\ isResearchCanceled = FALSE
    /\ serpApiKey = TRUE
    /\ active = 0
    /\ run = [p \in Procs |-> IdleRun]
    /\ rounds = 0
    /\ emptySeen = FALSE
    /\ plans = 0
    /\ search = IdleSearch
    /\ researchTimeout = NoTimeout
    /\ retry = IdleRetry
    /\ requestCache = [u \in { L_Full[i] : i \in 1..Len(L_Full) } |-> None]
    /\ recentRequests = << >>
    /\ now = 0
    /\ call = [c \in Callers |-> IdleCall]
    /\ netLog = [u \in CrawlTargets |-> {}]

NextRate ==
    \/ RateStart
    \/ RateBatch
    \/ \E k \in 1..BATCH_SIZE : RateSettle(k)
    \/ RateCollect

SpecRate == InitRate /\ [][NextRate]_vars

-----------------------------------------------------------------------------
(* The statements checked *)

\* a call of executeResearch p moves on to a new call of the search collaborator
\* or to the crawlWebsite calls of a new batch
StartsNetworkCall(p) ==
    /\ run'[p].pc \in {"searching", "awaitBatch"}
    /\ run'[p].pc # run[p].pc

\* C1: once cancelResearch has run while a batch of round 1 was being fetched, the
\* round starts no further call of the search collaborator and no further batch of
\* crawlWebsite calls.
C1_NoCallAfterCancel ==
    [][\A p \in Procs :
          (run[p].cancelAt = "awaitBatch" /\ run[p].capIteration = 0)
             => ~ StartsNetworkCall(p)]_vars

\* C2: while every refinement has answered with improvedTargets, at most
\* MAX_RESEARCH_ITERATIONS rounds are started for a plan: a third never is.
C2_TwoRounds == emptySeen \/ rounds <= MAX_RESEARCH_ITERATIONS

\* two rounds have run, each refinement proposed targets, and Continue was refused
C2_Exhausted ==
    /\ ~ emptySeen
    /\ rounds = MAX_RESEARCH_ITERATIONS
    /\ currentIteration = MAX_RESEARCH_ITERATIONS
    /\ Len(iterations) = MAX_RESEARCH_ITERATIONS
    /\ lastToast = "Research Limit Reached"

\* C3: the recorded timestamps inside the rate window number at most
\* MAX_CONCURRENT_REQUESTS, here for the crawlWebsite that takes a timeout.
C3_WindowBound ==
    Cardinality({ i \in 1..Len(recentRequests) :
                    now - recentRequests[i].timestamp < RATE_LIMIT_WINDOW_T })
       <= MAX_CONCURRENT_REQUESTS_T

\* caller c's crawlWebsite sends a request to the content collaborator
Sends(c) == call[c].pc = "idle" /\ call'[c].pc = "inflight"

C5_ResultsCapped ==
    /\ Len(researchResults) <= MAX_RESULTS_TOTAL
    /\ \A p \in Procs : Len(run[p].capResults) + Len(run[p].allResults) <= MAX_RESULTS_TOTAL

\* C6: when the fetches of a batch are started, no fetch of the batch before it
\* is still in flight.
C6_BatchesInTurn ==
    [][\A p \in Procs :
          (run'[p].pc = "awaitBatch" /\ run[p].pc # "awaitBatch")
             => \A k \in 1..Len(run[p].fstat) : run[p].fstat[k] # "inflight"]_vars

\* the second batch of a URL list is in flight, the first one settled with a failure
C6_SecondBatch ==
    \E p \in Procs :
        /\ run[p].pc = "awaitBatch"
        /\ run[p].bi = BATCH_SIZE
        /\ Len(run[p].sizes) = 2
        /\ Len(run[p].results) < BATCH_SIZE

\* the batch sizes of a list of n URLs: batchSize each, a shorter last one
ExpectedSizes(n) ==
    [k \in 1..((n + BATCH_SIZE - 1) \div BATCH_SIZE) |->
        IF k * BATCH_SIZE <= n THEN BATCH_SIZE ELSE n - (k - 1) * BATCH_SIZE]

IsPrefix(s, t) == Len(s) <= Len(t) /\ \A i \in 1..Len(s) : s[i] = t[i]

\* C7, as stated: when the batch loop of a URL list is over, the batches run were
\* ceil(n / BATCH_SIZE) ones of the expected sizes, and at most n results came back.
C7_AllBatchesRun ==
    \A p \in Procs :
        run[p].pc = "afterBatches"
          => /\ run[p].sizes = ExpectedSizes(Len(run[p].urls))
             /\ Len(run[p].results) <= Len(run[p].urls)

\* C7, amended: the batches run are the first ones of the expected partition, all
\* of them when the loop ran to the end of the list (neither the cancel flag nor
\* the result cap stopped it), and at most n results came back.
C7_BatchesUnlessStopped ==
    \A p \in Procs :
        run[p].pc = "afterBatches"
          => /\ IsPrefix(run[p].sizes, ExpectedSizes(Len(run[p].urls)))
             /\ (run[p].bi >= Len(run[p].urls)
                   => run[p].sizes = ExpectedSizes(Len(run[p].urls)))
             /\ Len(run[p].results) <= Len(run[p].urls)

\* four URLs have run as batches of 3 and 1, and some fetches failed
C7_ThreeThenOne ==
    \E p \in Procs :
        /\ run[p].pc = "afterBatches"
        /\ run[p].cancelAt = None
        /\ Len(run[p].urls) = 4
        /\ run[p].sizes = << 3, 1 >>
        /\ Len(run[p].results) < 4

\* C8: at most one executeResearch call is under way at any time.
C8_RoundsDoNotOverlap == Cardinality({ p \in Procs : Running(p) }) <= 1

\* C9: for each URL at most one request to the content collaborator is in flight.
C9_OneInFlightPerUrl ==
    \A u \in CrawlTargets :
        Cardinality({ c \in Callers : call[c].pc = "inflight" /\ call[c].url = u }) <= 1

\* C10: no crawlWebsite call is answered from the cache with a failed fetch.
C10_NoCachedFailure ==
    \A c \in Callers : call[c].ret = "cached" => requestCache[call[c].url] # "failed"
\* the recorded requests of FirecrawlService that lie inside the rate window
InWindow ==
    Cardinality({ i \in 1..Len(recentRequests) :
                    now - recentRequests[i].timestamp < RATE_LIMIT_WINDOW })

\* a crawlWebsite call is refused by enforceRateLimit in this step
Denied ==
    \E c \in Callers :
        /\ call'[c].ret = "limited"
        /\ \/ call'[c] # call[c]
           \/ call' = call /\ recentRequests' # recentRequests

\* C11: a crawlWebsite call is admitted only while fewer than
\* MAX_CONCURRENT_REQUESTS requests lie inside the window, so the call after the
\* MAX_CONCURRENT_REQUESTS-th admitted one is refused; and a call is refused only
\* while that many lie inside it, so once RATE_LIMIT_WINDOW has elapsed since
\* those requests a call is admitted again.
C11_AdmitBelowLimit ==
    [][/\ (\E c \in Callers : Sends(c)) => InWindow < MAX_CONCURRENT_REQUESTS
       /\ Denied => InWindow >= MAX_CONCURRENT_REQUESTS]_vars

\* a call was refused, the window has elapsed, and a call is admitted again: the
\* only recorded request is the one just sent
C11_AdmittedAgain ==
    \E c, d \in Callers :
        /\ call[c].ret = "limited"
        /\ call[d].pc = "inflight"
        /\ now >= RATE_LIMIT_WINDOW
        /\ Len(recentRequests) = 1
        /\ recentRequests[1].timestamp = now
\* C12: once no executeResearch call is under way, every URL that a cancelled
\* call had fetched with content when cancelResearch ran is in researchResults.
C12_KeptAfterStop ==
    (\A q \in Procs : ~ Running(q))
       => \A p \in Procs : \A u \in run[p].kept :
             \E i \in 1..Len(researchResults) : researchResults[i].url = u
\* the call p of executeResearch ends in this step on a failed or timed-out
\* refinement: the catch block shows "Research Failed"
RefinementFails(p) ==
    /\ run[p].pc = "refining"
    /\ run'[p].pc = "idle"
    /\ lastToast' = "Research Failed"

\* C13: when a round ends on a failed refinement, researchResults holds every
\* result the round started with and every result of the round's own fetches.
C13_FailureKeepsResults ==
    [][\A p \in Procs :
          RefinementFails(p)
             => LET mine == run[p].capResults \o run[p].allResults
                IN  \A i \in 1..Len(mine) :
                       \E j \in 1..Len(researchResults') : researchResults'[j] = mine[i]]_vars

\* C14: every call of executeResearch that has started comes to its end, whatever
\* the targets and whatever the answers, once every call it awaits settles: the
\* resolve, fetch and refine loop of a round takes finitely many steps.
C14_RoundTerminates == \A p \in Procs : Running(p) ~> ~ Running(p)

\* two calls of executeResearch have started and both have come to their end
C14_BothEnded ==
    /\ rounds >= 2
    /\ \A p \in Procs : ~ Running(p)
    /\ ~ isResearching

\* C15: once a refinement has answered with an empty improvedTargets list, no
\* further round is started for the question.
C15_NoRoundAfterEmpty == [][emptySeen => rounds' = rounds]_vars

\* the refinement of call p is answered and the round completes
RefinementAnswered(p) ==
    /\ run[p].pc = "refining"
    /\ run'[p].pc = "idle"
    /\ lastToast' # "Research Failed"

\* C16: when a round completes its refinement step, the iteration history holds a
\* record with the round's own targets and the round's own fetched results, for
\* round 1 as for later rounds.
C16_RoundRecorded ==
    [][\A p \in Procs :
          RefinementAnswered(p)
             => \E i \in 1..Len(iterations') :
                   /\ iterations'[i].targets = run[p].searchTargets
                   /\ iterations'[i].results = run[p].allResults]_vars

NoUrlTwice(urls) == \A i, j \in 1..Len(urls) : urls[i] = urls[j] => i = j

\* the response is nothing but the organic results given
OnlyOrganic(organic) ==
    search.data = [kg |-> << >>, organic |-> organic, inline |-> << >>, events |-> << >>]

\* C17 as stated: getTopSearchUrls returns no URL twice, and for the organic results
\* [A, B, A, C] it returns [A, C] whenever B is on a domain that the first pass
\* leaves out.
C17_NoDuplicateAnyExcluded ==
    search.via = "answered"
       => /\ NoUrlTwice(search.found)
          /\ \A b \in Links :
                (~ FirstPassOk(b) /\ OnlyOrganic(<< K_A, b, K_A, K_C >>))
                   => search.found = << K_A, K_C >>

\* C17: getTopSearchUrls returns no URL twice; for the organic results [A, B, A, C]
\* it returns [A, C] when B is on google.com, and [A, C, B] when B is on youtube.com,
\* which only the first pass leaves out and the second pass adds while fewer than
\* limit URLs are found.
C17_NoDuplicate ==
    search.via = "answered"
       => /\ NoUrlTwice(search.found)
          /\ OnlyOrganic(<< K_A, K_Google, K_A, K_C >>) => search.found = << K_A, K_C >>
          /\ OnlyOrganic(<< K_A, K_Tube, K_A, K_C >>) => search.found = << K_A, K_C, K_Tube >>

\* the answer for the organic results [A, B, A, C] with B on google.com
C17_RepeatedLinkOnce ==
    /\ search.via = "answered"
    /\ OnlyOrganic(<< K_A, K_Google, K_A, K_C >>)
    /\ search.found = << K_A, K_C >>

C19_SpacedTextIsSearched ==
    ( /\ search.pc = "resolved"
      /\ search.key
      /\ Includes(search.target, " ")
      /\ \E i \in 1..Len(search.target) : search.target[i] \in Tlds
      /\ ~ StartsWithHttp(search.target)
      /\ ~ StartsWith(search.target, "site:") )
       => /\ Len(search.sent) > 0
          /\ search.via \in {"answered", "fallback"}

\* C20: a target that starts with http:// or https:// is taken as a direct URL:
\* urlsToScrape is built as exactly that URL, neither getTopSearchUrls nor the
\* search collaborator is called for it, and the URL is kept for fetching when it
\* passes the filter of valid URLs.
C20_HttpTargetIsDirect ==
    StartsWithHttp(search.target)
       => /\ search.pc \in {"start", "resolved"}
          /\ search.sent = << >>
          /\ search.pc = "resolved"
                => /\ search.via = "case1"
                   /\ search.cand = << search.target >>
                   /\ IsValidUrl(search.target) => search.urls = << search.target >>

\* an http:// target has been resolved to itself, with a SerpAPI key stored
C20_HttpResolved ==
    /\ search.pc = "resolved"
    /\ search.key
    /\ search.target = T_Http
    /\ search.urls = << T_Http >>

\* the fetching of call p ends: executeResearch leaves its loop over the targets
FetchingEnds(p) ==
    /\ run[p].pc = "loop"
    /\ run[p].ti >= Len(run[p].searchTargets)
    /\ run'[p] # run[p]

ProcessesNext(p) ==
    \/ run[p].pc = "targetLoop" /\ run'[p].pc \notin {"targetLoop", "scrapeReturn"}
    \/ run[p].pc = "targetLoop" /\ run'[p].pc = "targetLoop" /\ run'[p].sti > run[p].sti
    \/ run[p].pc = "batchLoop" /\ run'[p].pc = "awaitBatch"

\* the global timeout fires
TimeoutStep ==
    /\ researchTimeout' # researchTimeout
    /\ researchTimeout'.by = "timeout"

C23_FlagOfOtherSession ==
    [][\A p, q \in Procs :
          (p # q /\ Running(p) /\ run'[p] = run[p] /\ run'[q] # run[q])
             => isResearchCanceled' = isResearchCanceled]_vars

\* the results accumulated when call p takes a step: those the session held when
\* the round began and those the round has fetched
AccumulatedCount(p) ==
    Len(run[p].capResults) + Len(run[p].allResults) + Len(run[p].results)

\* C24: once the accumulated results number MAX_RESULTS_TOTAL, the round processes
\* no further target and no further batch.
C24_CapStopsRound ==
    [][\A p \in Procs :
          AccumulatedCount(p) >= MAX_RESULTS_TOTAL
             => /\ ~ ProcessesNext(p)
                /\ ~ (run[p].pc = "loop" /\ run'[p].pc = "targetLoop")]_vars

\* C25: a search call makes at most MAX_RETRIES + 1 attempts; the k-th retry
\* (k = 0, 1, ...) comes after a delay of RETRY_DELAY * 2^k; once the last
\* attempt has failed the call has taken its failure path
C25_BoundedBackoff ==
    /\ retry.attempts <= MAX_RETRIES + 1
    /\ retry.attempts <= Len(retry.delays) + 1
    /\ \A k \in 1..Len(retry.delays) : retry.delays[k] = RETRY_DELAY * 2 ^ (k - 1)
    /\ Len(retry.errors) = MAX_RETRIES + 1
         => retry.pc = "returned" /\ retry.returned = "fallback"

\* every attempt has failed and the call has given up after the second retry
C25_GaveUpAfterLastRetry ==
    /\ retry.attempts = MAX_RETRIES + 1
    /\ Len(retry.errors) = MAX_RETRIES + 1
    /\ Len(retry.delays) = MAX_RETRIES
    /\ retry.returned = "fallback"

\* C26: an attempt that ends with a timeout is the call's last attempt: no
\* attempt and no backoff follows it
C26_TimeoutNotRetried ==
    \A i \in 1..Len(retry.errors) :
        retry.errors[i] = "timeout"
            => /\ i = Len(retry.errors)
               /\ retry.attempts = i
               /\ retry.pc = "returned"
               /\ Len(retry.delays) = i - 1

\* the call has returned after an attempt that timed out
C26_ReturnedOnTimeout ==
    /\ retry.pc = "returned"
    /\ Len(retry.errors) > 0
    /\ retry.errors[Len(retry.errors)] = "timeout"

\* the errors the statement calls retryable: rate limits and transient network errors
Retryable == { "network", "rateLimit" }

\* C27: only a retryable error is followed by a retry; an attempt that fails with
\* any other error is the call's only attempt
C27_OnlyRetryableRetried ==
    \A i \in 1..Len(retry.errors) :
        retry.errors[i] \notin Retryable
            => /\ i = 1
               /\ retry.attempts = 1
               /\ retry.pc = "returned"

\* C28: once cancelResearch has been called during a search call, whether an
\* attempt is pending or the backoff is awaited, the call makes no further attempt
C28_NoAttemptAfterCancel ==
    [][ (isResearchCanceled /\ retry.pc \in { "fetching", "backoff" })
            => retry'.attempts = retry.attempts ]_vars

\* C29: whenever an attempt is pending, the first one or a retry, the abort timer
\* that bounds it is armed
C29_EveryAttemptTimed ==
    retry.pc = "fetching" => retry.timer

\* C30: a target that starts with site: or looks like a domain is resolved to at
\* least one valid URL to fetch, whatever the search collaborator does
C30_StructuredTargetResolves ==
    ( /\ search.pc = "resolved"
      /\ StartsWith(search.target, "site:") \/ LooksLikeDomain(search.target) )
        => Len(search.urls) >= 1

\* C31: the list getTopSearchUrls returns from a response holds no URL on the
\* search provider's own domain, whichever field of the response the URL came from
C31_NoProviderUrl ==
    search.via = "answered"
       => \A i \in 1..Len(search.found) : ~ OnDomain(search.found[i], "google")

\* the number of times a piece of text occurs in a query
Occurrences(q, text) == Cardinality({ i \in 1..Len(q) : q[i] = text })

\* C32: a query sent to the search collaborator contains the research context at
\* most once and the date window at most once
C32_ContextAndDatesOnce ==
    \A i \in 1..Len(search.sent) :
        /\ Occurrences(search.sent[i], search.researchContext) <= 1
        /\ Occurrences(search.sent[i], search.dateStr) <= 1

\* caller c's crawlWebsite issues its network call in this step
Issued(c) == call[c].pc # "inflight" /\ call'[c].pc = "inflight"

\* the step leaves recentRequests as it was, or only drops entries from its front
NoNewEntry(before, after) ==
    \E k \in 0..Len(before) : after = SubSeq(before, k + 1, Len(before))

\* C33: a timestamp is recorded in recentRequests exactly in the steps that issue
\* a network call, and it is the timestamp of that call; a crawlWebsite that
\* returns for an invalid URL, a cache hit or a full rate window records nothing
\* and issues no call
C33_TimestampOnlyWithCall ==
    [][ /\ \A c \in Callers :
             Issued(c)
                => /\ Len(recentRequests') > 0
                   /\ recentRequests'[Len(recentRequests')]
                         = [timestamp |-> now, url |-> call'[c].url]
                   /\ NoNewEntry(recentRequests,
                                 SubSeq(recentRequests', 1, Len(recentRequests') - 1))
        /\ (~ \E c \in Callers : Issued(c)) => NoNewEntry(recentRequests, recentRequests')
        /\ \A c \in Callers :
             (call'[c].ret # call[c].ret /\ call'[c].ret \in { "invalid", "cached", "limited" })
                => /\ NoNewEntry(recentRequests, recentRequests')
                   /\ call'[c].pc = "idle"
                   /\ netLog' = netLog ]_vars

\* a call was refused by the full rate window, another was served from the cache
C33_RefusedAndCached ==
    /\ \E c \in Callers : call[c].ret = "limited"
    /\ \E c \in Callers : call[c].ret = "cached"
    /\ Len(recentRequests) = MAX_CONCURRENT_REQUESTS

\* C34: every result of a scrapeSearchTargets call, and so every result the round
\* and the session accumulate, has content that is not empty
C34_NoEmptyResult ==
    /\ \A p \in Procs :
          /\ \A i \in 1..Len(run[p].results) : run[p].results[i].content # ""
          /\ \A i \in 1..Len(run[p].allResults) : run[p].allResults[i].content # ""
    /\ \A i \in 1..Len(researchResults) : researchResults[i].content # ""

\* a batch in which one fetch brought empty content and another brought text has
\* been collected: only the latter is among the results
C34_EmptyFetchLeftOut ==
    \E p \in Procs :
        /\ run[p].pc \in { "batchLoop", "batchDelay", "afterBatches" }
        /\ \E k \in 1..Len(run[p].fstat) : run[p].fstat[k] = "empty"
        /\ \E k \in 1..Len(run[p].fstat) : run[p].fstat[k] = "content"
        /\ Len(run[p].results) > 0
        /\ \A i \in 1..Len(run[p].results) : run[p].results[i].url # U_Void

\* C35: when the batch loop of a target is over and neither the cancel flag nor the
\* result cap stopped it, every batch of the URL list has been run, whatever the
\* fetches of earlier batches brought; and no URL whose fetch can only fail is
\* among the results
C35_FailuresStopNoBatch ==
    \A p \in Procs :
        /\ ( /\ run[p].pc = "afterBatches"
             /\ ~ isResearchCanceled
             /\ Len(run[p].results) < MAX_RESULTS_TOTAL )
              => run[p].sizes = ExpectedSizes(Len(run[p].urls))
        /\ \A i \in 1..Len(run[p].results) :
              CrawlOutcomes(run[p].results[i].url) # { "failed" }

\* every fetch of the first batch failed or was empty, the second batch was run and
\* its result is the only one
C35_SecondBatchAfterFailures ==
    \E p \in Procs :
        /\ run[p].pc = "afterBatches"
        /\ ~ isResearchCanceled
        /\ run[p].cancelAt = None
        /\ run[p].urls = L_Mixed
        /\ run[p].sizes = << BATCH_SIZE, 1 >>
        /\ Len(run[p].results) = 1
        /\ run[p].results[1].url = L_Mixed[4]

\* C36: the results a round has accumulated name no URL twice
C36_OneResultPerUrl ==
    \A p \in Procs :
        \A i, j \in 1..Len(run[p].allResults) :
            run[p].allResults[i].url = run[p].allResults[j].url => i = j

\* the round of call p hands its results to the page (setResearchResults)
RoundWrites(p) == run[p].pc = "loop" /\ run'[p].pc = "refining"

\* C37: once the plan of a new question is there, a round that was started for
\* the question before adds none of its results to researchResults
C37_OldRoundAddsNothing ==
    [][ \A p \in Procs :
          ( /\ RoundWrites(p)
            /\ plannerResponse # NoPlan
            /\ run[p].searchTargets # plannerResponse
            /\ Len(run[p].allResults) > 0 )
              => researchResults' = researchResults ]_vars

\* C38: no crawlWebsite call made by the batch loop is refused by the rate limiter
C38_NoFetchLimited ==
    \A k \in 1..Len(run[1].fstat) : run[1].fstat[k] # "limited"

\* C39: while round N, the only round running, awaits its refinement, the
\* iteration number that reaches the refinement collaborator is N, the number of
\* the round
C39_IterationIsRoundNumber ==
    \A p \in Procs :
        ( /\ run[p].pc = "refining"
          /\ \A q \in Procs \ {p} : ~ Running(q) )
            => ForwardedIteration(RequestIteration(run[p])) = currentIteration

=============================================================================
